---- MODULE Spec2Model ----
(***************************************************************************)
(* State-machine model of src/app.py: a Flask application over an SQLite   *)
(* store with three tables (users, notes, game_stats) and a cookie session *)
(* per browser.                                                            *)
(*                                                                         *)
(* app.run serves requests on concurrent worker threads and every handler  *)
(* opens its own sqlite3 connection.  A SELECT runs outside a transaction  *)
(* and a write is committed right after it, so one step of the model is    *)
(* one SQL statement (a write together with its commit), and two handlers  *)
(* may interleave between their SELECT and their INSERT or UPDATE.  A      *)
(* handler that touches the store at most once is a single step.           *)
(*                                                                         *)
(* Python values: None and the empty dict are the empty tuple <<>>, the    *)
(* row fetchone() returns is <<row>>, the session dict is a record.  The   *)
(* flashed message of a handler is carried in its response.  The pages     *)
(* that hold no state (GET /, GET /login, GET /register) are left out.     *)
(***************************************************************************)
EXTENDS Integers, Sequences, FiniteSets, TLC

VARIABLES
    users,       \* table users, in rowid order
    notes,       \* table notes, in rowid order
    game_stats,  \* table game_stats, in rowid order
    session,     \* the session cookie each browser holds
    now,         \* the store's CURRENT_TIMESTAMP
    lastSave,    \* history: per account, the content of the save committed last
    pc,          \* where each worker thread is in its handler
    req,         \* the request a worker handles, with the handler's locals
    resp,        \* the response a worker produced
    touched      \* the tables the worker's request has read or written

vars == <<users, notes, game_stats, lastSave, session, now, pc, req, resp, touched>>

db == <<users, notes, game_stats>>

(***************************************************************************)
(* Bounds of the model.                                                    *)
(***************************************************************************)
MaxUsers == 3
MaxNotes == 2
MaxCount == 2
MaxClock == 1
MaxBoard == 6

LeaderboardLimit == 5

Threads == {"t1", "t2"}
Clients == {"c1", "c2"}

Usernames == {"demo", "ann", "bob"}
Emails == {"demo@example.com", "ann@example.com", "bob@example.com"}
Passwords == {"demo123", "pw"}
Salts == {"s1", "s2"}
Contents == {"", "a", "b"}
Results == {"win", "loss", "tie", "draw"}
WinValues == {0, 1, 3, 5}

None == <<>>

Some(x) == <<x>>

(***************************************************************************)
(* werkzeug.security: a salted hash and its check.                         *)
(***************************************************************************)
generate_password_hash(password, salt) == [salt |-> salt, digest |-> <<salt, password>>]

check_password_hash(pwhash, password) == pwhash.digest = <<pwhash.salt, password>>

(***************************************************************************)
(* The store.                                                              *)
(***************************************************************************)
fetchone(rows) == IF Len(rows) = 0 THEN None ELSE Some(Head(rows))

get_user(username) == fetchone(SelectSeq(users, LAMBDA r : r.username = username))

\* seeded fault: the schema without UNIQUE on email
UsersUniqueOK_UsernameOnly(row) == \A i \in 1..Len(users) : users[i].username # row.username

\* UNIQUE(username), UNIQUE(email) of table users: may `row` be inserted?
UsersUniqueOK(row) == \A i \in 1..Len(users) : users[i].username # row.username /\ users[i].email # row.email

\* UNIQUE(user_id) of table game_stats
GameStatsUniqueOK(user_id) == \A i \in 1..Len(game_stats) : game_stats[i].user_id # user_id

NotesOf(user_id) == SelectSeq(notes, LAMBDA r : r.user_id = user_id)

StatsOf(user_id) == SelectSeq(game_stats, LAMBDA r : r.user_id = user_id)

(***************************************************************************)
(* Requests and responses.                                                 *)
(***************************************************************************)
NoReq == [route |-> "none", method |-> "none", client |-> "none", sess |-> None, form |-> <<>>, local |-> <<>>]

NoResp == [status |-> 0, page |-> "none", flash |-> "none", data |-> <<>>]

Request(route, method, c, form, local) == [route |-> route, method |-> method, client |-> c, sess |-> session[c], form |-> form, local |-> local]

Redirect(page, flash) == [status |-> 302, page |-> page, flash |-> flash, data |-> <<>>]

Render(page, flash, data) == [status |-> 200, page |-> page, flash |-> flash, data |-> data]

\* 'user_id' in session
LoggedIn(s) == "user_id" \in DOMAIN s

\* a handler returns: the response is recorded and the worker is finished
Finish(t, r, q, tables) ==
    /\ pc' = [pc EXCEPT ![t] = "done"]
    /\ req' = [req EXCEPT ![t] = q]
    /\ resp' = [resp EXCEPT ![t] = r]
    /\ touched' = [touched EXCEPT ![t] = tables]

\* a handler moves on to its next statement
Goto(t, label, q, tables) ==
    /\ pc' = [pc EXCEPT ![t] = label]
    /\ req' = [req EXCEPT ![t] = q]
    /\ resp' = resp
    /\ touched' = [touched EXCEPT ![t] = tables]

(***************************************************************************)
(* init_db: the three empty tables and the demo account.                   *)
(***************************************************************************)
DemoUser == [id |-> 1, username |-> "demo", email |-> "demo@example.com", password_hash |-> generate_password_hash("demo123", "s1")]

Init ==
    /\ users = <<DemoUser>>
    /\ notes = <<>>
    /\ game_stats = <<>>
    /\ lastSave = {}
    /\ session = [c \in Clients |-> None]
    /\ now = 0
    /\ pc = [t \in Threads |-> "idle"]
    /\ req = [t \in Threads |-> NoReq]
    /\ resp = [t \in Threads |-> NoResp]
    /\ touched = [t \in Threads |-> {}]

(***************************************************************************)
(* POST /register                                                          *)
(***************************************************************************)
Registering == {t \in Threads : pc[t] = "register_insert"}

\* the existence check: get_user(username)
RegisterCheck(t, c, username, email, password) ==
    /\ pc[t] = "idle"
    /\ Len(users) + Cardinality(Registering) < MaxUsers
    /\ IF get_user(username) # None
       THEN Finish(t, Render("register", "Username already exists", <<>>), Request("register", "POST", c, <<username, email, password>>, <<>>), {"users"})
       ELSE Goto(t, "register_insert", Request("register", "POST", c, <<username, email, password>>, <<>>), {"users"})
    /\ UNCHANGED <<users, notes, game_stats, lastSave, session, now>>

NewUser(form, salt) == [id |-> Len(users) + 1, username |-> form[1], email |-> form[2], password_hash |-> generate_password_hash(form[3], salt)]

\* the INSERT; sqlite3.IntegrityError is caught
RegisterInsert(t, salt) ==
    /\ pc[t] = "register_insert"
    /\ IF UsersUniqueOK(NewUser(req[t].form, salt))
       THEN /\ users' = Append(users, NewUser(req[t].form, salt))
            /\ Finish(t, Redirect("login", "Registration successful! Please login."), req[t], {"users"})
       ELSE /\ users' = users
            /\ Finish(t, Render("register", "Username or email already exists", <<>>), req[t], {"users"})
    /\ UNCHANGED <<notes, game_stats, lastSave, session, now>>

(***************************************************************************)
(* POST /login, GET /logout                                                *)
(***************************************************************************)
\* seeded fault: `if user:` without the password check
Authenticates_AnyPassword(user, password) == user # None

\* user and check_password_hash(user[3], password)
Authenticates(user, password) == user # None /\ check_password_hash(user[1].password_hash, password)

Login(t, c, username, password) ==
    /\ pc[t] = "idle"
    /\ IF Authenticates(get_user(username), password)
       THEN /\ session' = [session EXCEPT ![c] = [user_id |-> get_user(username)[1].id, username |-> get_user(username)[1].username]]
            /\ Finish(t, Redirect("dashboard", "Login successful!"), Request("login", "POST", c, <<username, password>>, <<>>), {"users"})
       ELSE /\ session' = session
            /\ Finish(t, Render("login", "Invalid username or password", <<>>), Request("login", "POST", c, <<username, password>>, <<>>), {"users"})
    /\ UNCHANGED <<users, notes, game_stats, lastSave, now>>

Logout(t, c) ==
    /\ pc[t] = "idle"
    /\ session' = [session EXCEPT ![c] = None]
    /\ Finish(t, Redirect("landing", "You have been logged out"), Request("logout", "GET", c, <<>>, <<>>), {})
    /\ UNCHANGED <<users, notes, game_stats, lastSave, now>>

\* the response is sent and the worker takes the next request
Return(t) ==
    /\ pc[t] = "done"
    /\ pc' = [pc EXCEPT ![t] = "idle"]
    /\ req' = [req EXCEPT ![t] = NoReq]
    /\ resp' = [resp EXCEPT ![t] = NoResp]
    /\ touched' = [touched EXCEPT ![t] = {}]
    /\ UNCHANGED <<users, notes, game_stats, lastSave, session, now>>

(***************************************************************************)
(* GET /dashboard, GET /wordgame                                           *)
(***************************************************************************)
Dashboard(t, c) ==
    /\ pc[t] = "idle"
    /\ IF ~LoggedIn(session[c])
       THEN Finish(t, Redirect("login", "Please login to access the dashboard"), Request("dashboard", "GET", c, <<>>, <<>>), {})
       ELSE Finish(t, Render("dashboard", "none", <<session[c].username>>), Request("dashboard", "GET", c, <<>>, <<>>), {})
    /\ UNCHANGED <<users, notes, game_stats, lastSave, session, now>>

Wordgame(t, c) ==
    /\ pc[t] = "idle"
    /\ IF ~LoggedIn(session[c])
       THEN Finish(t, Redirect("login", "Please login to access the word game"), Request("wordgame", "GET", c, <<>>, <<>>), {})
       ELSE Finish(t, Render("wordgame", "none", <<session[c].username>>), Request("wordgame", "GET", c, <<>>, <<>>), {})
    /\ UNCHANGED <<users, notes, game_stats, lastSave, session, now>>

(***************************************************************************)
(* GET, POST /notepad                                                      *)
(***************************************************************************)
\* datetime.fromisoformat(...).strftime('%Y-%m-%d at %I:%M %p')
FormatTimestamp(ts) == <<"at", ts>>

\* SELECT content, last_updated FROM notes WHERE user_id = ?; fetchone()
NoteView(user_id) ==
    IF fetchone(NotesOf(user_id)) = None
    THEN <<"", None>>
    ELSE <<fetchone(NotesOf(user_id))[1].content, Some(FormatTimestamp(fetchone(NotesOf(user_id))[1].last_updated))>>

\* SELECT id FROM notes WHERE user_id = ?; fetchone()
ExistingNote(user_id) == IF fetchone(NotesOf(user_id)) = None THEN None ELSE Some(fetchone(NotesOf(user_id))[1].id)

Inserting == {t \in Threads : pc[t] = "notepad_save" /\ req[t].local = None}

NotepadGet(t, c) ==
    /\ pc[t] = "idle"
    /\ IF ~LoggedIn(session[c])
       THEN Finish(t, Redirect("login", "Please login to access the notepad"), Request("notepad", "GET", c, <<>>, <<>>), {})
       ELSE Finish(t, Render("notepad", "none", NoteView(session[c].user_id)), Request("notepad", "GET", c, <<>>, <<>>), {"notes"})
    /\ UNCHANGED <<users, notes, game_stats, lastSave, session, now>>

\* the gate and the existence check of a save
NotepadPost(t, c, content) ==
    /\ pc[t] = "idle"
    /\ IF ~LoggedIn(session[c])
       THEN Finish(t, Redirect("login", "Please login to access the notepad"), Request("notepad", "POST", c, <<content>>, <<>>), {})
       ELSE /\ ExistingNote(session[c].user_id) = None => Len(notes) + Cardinality(Inserting) < MaxNotes
            /\ Goto(t, "notepad_save", Request("notepad", "POST", c, <<content>>, ExistingNote(session[c].user_id)), {"notes"})
    /\ UNCHANGED <<users, notes, game_stats, lastSave, session, now>>

\* seeded fault: the UPDATE without its WHERE clause
UpdateNotes_AllRows(user_id, content) ==
    [i \in 1..Len(notes) |-> [notes[i] EXCEPT !.content = content, !.last_updated = now]]

\* UPDATE notes SET content = ?, last_updated = CURRENT_TIMESTAMP WHERE user_id = ?
UpdateNotes(user_id, content) ==
    [i \in 1..Len(notes) |-> IF notes[i].user_id = user_id THEN [notes[i] EXCEPT !.content = content, !.last_updated = now] ELSE notes[i]]

\* INSERT INTO notes (user_id, content) VALUES (?, ?)
InsertNote(user_id, content) == Append(notes, [id |-> Len(notes) + 1, user_id |-> user_id, content |-> content, last_updated |-> now])

\* the UPDATE or INSERT of a save, and its commit
NotepadSave(t) ==
    /\ pc[t] = "notepad_save"
    /\ notes' = IF req[t].local # None THEN UpdateNotes(req[t].sess.user_id, req[t].form[1]) ELSE InsertNote(req[t].sess.user_id, req[t].form[1])
    /\ lastSave' = {s \in lastSave : s.user_id # req[t].sess.user_id} \cup {[user_id |-> req[t].sess.user_id, content |-> req[t].form[1]]}
    /\ Goto(t, "notepad_fetch", req[t], {"notes"})
    /\ UNCHANGED <<users, game_stats, session, now>>

\* the fetch that follows a save, and the page
NotepadFetch(t) ==
    /\ pc[t] = "notepad_fetch"
    /\ Finish(t, Render("notepad", "Notes saved successfully!", NoteView(req[t].sess.user_id)), req[t], {"notes"})
    /\ UNCHANGED <<users, notes, game_stats, lastSave, session, now>>

\* time passes
Tick ==
    /\ now < MaxClock
    /\ now' = now + 1
    /\ UNCHANGED <<users, notes, game_stats, lastSave, session, pc, req, resp, touched>>

(***************************************************************************)
(* POST /update_game_stats                                                 *)
(***************************************************************************)
\* seeded fault: the error body without the 401 status
Unauthorized_Status200 == [status |-> 200, page |-> "json", flash |-> "none", data |-> <<"error">>]

Unauthorized == [status |-> 401, page |-> "json", flash |-> "none", data |-> <<"error">>]

Success == [status |-> 200, page |-> "json", flash |-> "none", data |-> <<"success">>]

\* an exception no handler catches
ServerError == [status |-> 500, page |-> "error", flash |-> "none", data |-> <<>>]

\* SELECT wins, losses, ties FROM game_stats WHERE user_id = ?; fetchone()
ReadStats(user_id) ==
    IF fetchone(StatsOf(user_id)) = None
    THEN None
    ELSE Some(<<fetchone(StatsOf(user_id))[1].wins, fetchone(StatsOf(user_id))[1].losses, fetchone(StatsOf(user_id))[1].ties>>)

\* wins += 1 / losses += 1 / ties += 1
Incremented(stats, result) ==
    <<IF result = "win" THEN stats[1] + 1 ELSE stats[1],
      IF result = "loss" THEN stats[2] + 1 ELSE stats[2],
      IF result = "tie" THEN stats[3] + 1 ELSE stats[3]>>

\* seeded fault: anything that is neither a win nor a loss counted as a tie
FirstStats_ElseTie(result) ==
    <<IF result = "win" THEN 1 ELSE 0,
      IF result = "loss" THEN 1 ELSE 0,
      IF result \in {"win", "loss"} THEN 0 ELSE 1>>

\* the counters of a new stats record
FirstStats(result) ==
    <<IF result = "win" THEN 1 ELSE 0,
      IF result = "loss" THEN 1 ELSE 0,
      IF result = "tie" THEN 1 ELSE 0>>

\* the values the handler will write
NewStats(stats, result) == IF stats # None THEN Incremented(stats[1], result) ELSE FirstStats(result)

\* the gate and the read of the counters
StatsBegin(t, c, result) ==
    /\ pc[t] = "idle"
    /\ IF ~LoggedIn(session[c])
       THEN Finish(t, Unauthorized, Request("update_game_stats", "POST", c, <<result>>, <<>>), {})
       ELSE /\ \A k \in 1..3 : NewStats(ReadStats(session[c].user_id), result)[k] <= MaxCount
            /\ Goto(t, "stats_write", Request("update_game_stats", "POST", c, <<result>>, ReadStats(session[c].user_id)), {"game_stats"})
    /\ UNCHANGED <<users, notes, game_stats, lastSave, session, now>>

\* UPDATE game_stats SET wins = ?, losses = ?, ties = ? WHERE user_id = ?
UpdateStats(user_id, stats) ==
    [i \in 1..Len(game_stats) |-> IF game_stats[i].user_id = user_id THEN [game_stats[i] EXCEPT !.wins = stats[1], !.losses = stats[2], !.ties = stats[3]] ELSE game_stats[i]]

\* INSERT INTO game_stats (user_id, wins, losses, ties) VALUES (?, ?, ?, ?)
InsertStats(user_id, stats) == Append(game_stats, [id |-> Len(game_stats) + 1, user_id |-> user_id, wins |-> stats[1], losses |-> stats[2], ties |-> stats[3]])

\* the UPDATE or INSERT, and its commit; an IntegrityError of the INSERT is not caught
StatsWrite(t) ==
    /\ pc[t] = "stats_write"
    /\ IF req[t].local # None
       THEN /\ game_stats' = UpdateStats(req[t].sess.user_id, NewStats(req[t].local, req[t].form[1]))
            /\ Finish(t, Success, req[t], {"game_stats"})
       ELSE IF GameStatsUniqueOK(req[t].sess.user_id)
            THEN /\ game_stats' = InsertStats(req[t].sess.user_id, NewStats(req[t].local, req[t].form[1]))
                 /\ Finish(t, Success, req[t], {"game_stats"})
            ELSE /\ game_stats' = game_stats
                 /\ Finish(t, ServerError, req[t], {"game_stats"})
    /\ UNCHANGED <<users, notes, lastSave, session, now>>

(***************************************************************************)
(* GET /tictactoe                                                          *)
(***************************************************************************)
\* users u JOIN game_stats g ON u.id = g.user_id WHERE g.wins > 0
Joined ==
    {<<users[i].username, game_stats[j].wins>> : <<i, j>> \in
        {p \in (1..Len(users)) \X (1..Len(game_stats)) :
            users[p[1]].id = game_stats[p[2]].user_id /\ game_stats[p[2]].wins > 0}}

\* seeded fault: ORDER BY wins ASC
Highest_Lowest(S) == {x \in S : \A y \in S : x[2] <= y[2]}

\* the rows that come first under ORDER BY wins DESC
Highest(S) == {x \in S : \A y \in S : y[2] <= x[2]}

\* ORDER BY wins DESC LIMIT k: every order the store may return equal wins in
RECURSIVE OrderedTop(_, _)
OrderedTop(S, k) ==
    IF S = {} \/ k = 0
    THEN {<<>>}
    ELSE UNION {{<<r>> \o s : s \in OrderedTop(S \ {r}, k - 1)} : r \in Highest(S)}

Leaderboards == OrderedTop(Joined, LeaderboardLimit)

Tictactoe(t, c) ==
    /\ pc[t] = "idle"
    /\ IF ~LoggedIn(session[c])
       THEN Finish(t, Redirect("login", "Please login to access the game"), Request("tictactoe", "GET", c, <<>>, <<>>), {})
       ELSE \E leaderboard \in Leaderboards :
                Finish(t, Render("tictactoe", "none", leaderboard), Request("tictactoe", "GET", c, <<>>, <<>>), {"users", "game_stats"})
    /\ UNCHANGED <<users, notes, game_stats, lastSave, session, now>>

(***************************************************************************)
(* Specifications.  Each lets the handlers under study run on the worker   *)
(* threads, from the state init_db leaves.                                 *)
(***************************************************************************)
\* registration and login from one browser, on two workers
NextAccounts ==
    \/ \E t \in Threads, u \in Usernames, e \in Emails, p \in Passwords : RegisterCheck(t, "c1", u, e, p)
    \/ \E t \in Threads, s \in Salts : RegisterInsert(t, s)
    \/ \E t \in Threads, u \in Usernames, p \in Passwords : Login(t, "c1", u, p)
    \/ \E t \in Threads : Logout(t, "c1")
    \/ \E t \in Threads : Return(t)

SpecAccounts == Init /\ [][NextAccounts]_vars

\* the notepad of the demo account, on two workers
NextNotes ==
    \/ \E t \in Threads, c \in Clients : Login(t, c, "demo", "demo123")
    \/ \E t \in Threads, c \in Clients : NotepadGet(t, c)
    \/ \E t \in Threads, c \in Clients, x \in Contents : NotepadPost(t, c, x)
    \/ \E t \in Threads : NotepadSave(t)
    \/ \E t \in Threads : NotepadFetch(t)
    \/ \E t \in Threads : Return(t)
    \/ Tick

SpecNotes == Init /\ [][NextNotes]_vars

\* the game statistics of the demo account, on two workers
NextStats ==
    \/ \E t \in Threads, c \in Clients : Login(t, c, "demo", "demo123")
    \/ \E t \in Threads, c \in Clients, r \in Results : StatsBegin(t, c, r)
    \/ \E t \in Threads : StatsWrite(t)
    \/ \E t \in Threads : Return(t)

SpecStats == Init /\ [][NextStats]_vars

\* every route, with and without a session, on one worker
NextGate ==
    \/ \E c \in Clients, p \in Passwords : Login("t1", c, "demo", p)
    \/ \E c \in Clients : Logout("t1", c)
    \/ \E c \in Clients : Dashboard("t1", c)
    \/ \E c \in Clients : Wordgame("t1", c)
    \/ \E c \in Clients : NotepadGet("t1", c)
    \/ \E c \in Clients, x \in Contents : NotepadPost("t1", c, x)
    \/ NotepadSave("t1")
    \/ NotepadFetch("t1")
    \/ \E c \in Clients : Tictactoe("t1", c)
    \/ \E c \in Clients, r \in Results : StatsBegin("t1", c, r)
    \/ StatsWrite("t1")
    \/ Return("t1")

SpecGate == Init /\ [][NextGate]_vars

\* two accounts, each in its own browser, on two workers
NextOwner ==
    \/ \E t \in Threads : RegisterCheck(t, "c2", "ann", "ann@example.com", "pw")
    \/ \E t \in Threads : RegisterInsert(t, "s1")
    \/ \E t \in Threads : Login(t, "c1", "demo", "demo123")
    \/ \E t \in Threads : Login(t, "c2", "ann", "pw")
    \/ \E t \in Threads, c \in Clients : NotepadGet(t, c)
    \/ \E t \in Threads, c \in Clients, x \in Contents \ {""} : NotepadPost(t, c, x)
    \/ \E t \in Threads : NotepadSave(t)
    \/ \E t \in Threads : NotepadFetch(t)
    \/ \E t \in Threads, c \in Clients : StatsBegin(t, c, "win")
    \/ \E t \in Threads : StatsWrite(t)
    \/ \E t \in Threads : Return(t)

SpecOwner == Init /\ [][NextOwner]_vars

\* the leaderboard over a drawn table of accounts and wins
BoardNames == <<"demo", "ann", "bob", "cat", "dan", "eve", "fay", "gus">>

BoardUser(i) == [id |-> i, username |-> BoardNames[i], email |-> BoardNames[i], password_hash |-> generate_password_hash("pw", "s1")]

InitLeaderboard ==
    /\ users = [i \in 1..MaxBoard |-> IF i = 1 THEN DemoUser ELSE BoardUser(i)]
    /\ notes = <<>>
    /\ \E w \in [1..MaxBoard -> WinValues] :
           game_stats = [i \in 1..MaxBoard |-> [id |-> i, user_id |-> i, wins |-> w[i], losses |-> 0, ties |-> 0]]
    /\ lastSave = {}
    /\ session = [c \in Clients |-> IF c = "c1" THEN [user_id |-> 1, username |-> "demo"] ELSE None]
    /\ now = 0
    /\ pc = [t \in Threads |-> "idle"]
    /\ req = [t \in Threads |-> NoReq]
    /\ resp = [t \in Threads |-> NoResp]
    /\ touched = [t \in Threads |-> {}]

NextLeaderboard ==
    \/ \E c \in Clients : Tictactoe("t1", c)
    \/ Return("t1")

SpecLeaderboard == InitLeaderboard /\ [][NextLeaderboard]_vars

(***************************************************************************)
(* Properties.                                                             *)
(***************************************************************************)
Protected == {"dashboard", "notepad", "tictactoe", "wordgame", "update_game_stats"}

DuplicateNotices == {"Username already exists", "Username or email already exists"}

\* worker t returns from the handler of `route` in this step
Completes(t, route) == pc[t] # "done" /\ pc'[t] = "done" /\ req'[t].route = route

UniqueAccounts ==
    \A i, j \in 1..Len(users) :
        i # j => users[i].username # users[j].username /\ users[i].email # users[j].email

AccountsKept == \A i \in 1..Len(users) : Len(users') >= i /\ users'[i] = users[i]

Taken(form) == \E i \in 1..Len(users) : users[i].username = form[1] \/ users[i].email = form[2]

\* C1: no two accounts ever share a username or an email; a register request
\* whose username or email is that of a stored account ends with a duplicate
\* notice, adds no account and changes none, however requests interleave.
C1_UniqueAccounts ==
    /\ []UniqueAccounts
    /\ [][/\ AccountsKept
          /\ \A t \in Threads :
                Completes(t, "register") /\ Taken(req'[t].form) =>
                    /\ resp'[t].status = 200
                    /\ resp'[t].page = "register"
                    /\ resp'[t].flash \in DuplicateNotices
                    /\ users' = users]_vars

\* C1 witness: a register lost the race between its existence check and its
\* INSERT, or collided on the email alone, and was answered by the notice of
\* the integrity error.
C1_Witness ==
    \E t, t2 \in Threads :
        /\ pc[t] = "done" /\ req[t].route = "register"
        /\ resp[t].flash = "Username or email already exists"
        /\ pc[t2] = "done" /\ req[t2].route = "register" /\ resp[t2].status = 302
        /\ req[t].form[1] = req[t2].form[1]
        /\ Len(users) = 2

Matching(form) ==
    {i \in 1..Len(users) : users[i].username = form[1] /\ check_password_hash(users[i].password_hash, form[2])}

\* C6: a POST /login establishes a session exactly when an account with the
\* submitted username exists and the password matches its stored hash, and the
\* session then holds that account's id and username; a registration stores a
\* hash that matches the registered password and no other; an unknown username
\* and a wrong password get the same response and change neither the session
\* nor the store; nothing but a successful login establishes a session.
C6_Login ==
    [][/\ \A t \in Threads :
            Completes(t, "login") =>
                /\ db' = db
                /\ lastSave' = lastSave
                /\ Matching(req'[t].form) # {} =>
                    /\ \E i \in Matching(req'[t].form) :
                           session'[req'[t].client] = [user_id |-> users[i].id, username |-> req'[t].form[1]]
                    /\ resp'[t] = Redirect("dashboard", "Login successful!")
                /\ Matching(req'[t].form) = {} =>
                    /\ session' = session
                    /\ resp'[t] = Render("login", "Invalid username or password", <<>>)
       /\ \A t \in Threads :
            Completes(t, "register") /\ resp'[t].status = 302 =>
                /\ Len(users') = Len(users) + 1
                /\ users'[Len(users')].id = Len(users')
                /\ users'[Len(users')].username = req'[t].form[1]
                /\ \A p \in Passwords :
                       check_password_hash(users'[Len(users')].password_hash, p) <=> p = req'[t].form[3]
       /\ \A c \in Clients :
            session'[c] # session[c] /\ session'[c] # None =>
                \E t \in Threads : Completes(t, "login") /\ req'[t].client = c]_vars

\* C6 witness: a registered account has logged in with its registered password
\* while a login with a wrong password for an existing username was refused.
C6_Witness ==
    \E t, t2 \in Threads :
        /\ pc[t] = "done" /\ req[t].route = "login" /\ resp[t].status = 302
        /\ session[req[t].client] = [user_id |-> 2, username |-> req[t].form[1]]
        /\ Len(users) >= 2 /\ users[2].username = req[t].form[1]
        /\ pc[t2] = "done" /\ req[t2].route = "login" /\ resp[t2].status = 200
        /\ get_user(req[t2].form[1]) # None

\* C2: each account owns at most one row of notes, also when two saves of one
\* account overlap.
C2_OneNotePerAccount == \A i, j \in 1..Len(notes) : notes[i].user_id = notes[j].user_id => i = j

\* C9: GET /notepad (and the page a save renders) shows empty content and no
\* timestamp for an account that never saved, and otherwise the content of the
\* save committed last, with a timestamp.
C9_LastSaveShown ==
    [][\A t \in Threads :
          Completes(t, "notepad") /\ resp'[t].status = 200 =>
              IF \E s \in lastSave : s.user_id = req'[t].sess.user_id
              THEN /\ [user_id |-> req'[t].sess.user_id, content |-> resp'[t].data[1]] \in lastSave
                   /\ resp'[t].data[2] # None
              ELSE resp'[t].data = <<"", None>>]_vars

Counters(rows) == IF Len(rows) = 0 THEN <<0, 0, 0>> ELSE <<rows[1].wins, rows[1].losses, rows[1].ties>>

\* C3: every stored counter is a non-negative integer and no step makes a
\* stored counter smaller, also when requests of one account overlap.
C3_CountersOnlyGrow ==
    /\ [](\A i \in 1..Len(game_stats) :
            game_stats[i].wins \in Nat /\ game_stats[i].losses \in Nat /\ game_stats[i].ties \in Nat)
    /\ [][\A i \in 1..Len(game_stats) :
            /\ Len(game_stats') >= i
            /\ game_stats'[i].user_id = game_stats[i].user_id
            /\ game_stats'[i].wins >= game_stats[i].wins
            /\ game_stats'[i].losses >= game_stats[i].losses
            /\ game_stats'[i].ties >= game_stats[i].ties]_vars

\* C4: every authenticated update_game_stats request with a result of win,
\* loss or tie adds one to the matching stored counter and leaves the other two
\* as they are, so no reported result is lost.
C4_EveryResultCounted ==
    [][\A t \in Threads :
          pc[t] = "stats_write" /\ pc'[t] = "done" /\ req[t].form[1] \in {"win", "loss", "tie"} =>
              (Counters(StatsOf(req[t].sess.user_id)))' = Incremented(Counters(StatsOf(req[t].sess.user_id)), req[t].form[1])]_vars

\* worker t's write creates the game_stats row of its account in this step
CreatesRow(t) ==
    /\ pc[t] = "stats_write" /\ pc'[t] = "done"
    /\ StatsOf(req[t].sess.user_id) = <<>>

C5_Gate ==
    [][/\ \A t \in Threads :
            pc[t] = "idle" /\ pc'[t] # "idle" /\ req'[t].route \in Protected /\ ~LoggedIn(session[req'[t].client]) =>
                /\ pc'[t] = "done"
                /\ touched'[t] = {}
                /\ db' = db
                /\ IF req'[t].route = "update_game_stats"
                   THEN resp'[t].status = 401 /\ resp'[t].data = <<"error">>
                   ELSE resp'[t].status = 302 /\ resp'[t].page = "login"
       /\ \A t \in Threads :
            Completes(t, "logout") =>
                /\ session'[req'[t].client] = None
                /\ resp'[t] = Redirect("landing", "You have been logged out")
       /\ \A c \in Clients :
            ~LoggedIn(session[c]) /\ LoggedIn(session'[c]) =>
                \E t \in Threads : Completes(t, "login") /\ req'[t].client = c /\ resp'[t].status = 302]_vars

\* C5 witness: after notes and statistics were stored and the browser logged
\* out, its update_game_stats request was answered with 401.
C5_Witness ==
    \E t \in Threads :
        /\ pc[t] = "done" /\ req[t].route = "update_game_stats"
        /\ resp[t].status = 401
        /\ touched[t] = {}
        /\ Len(notes) > 0 /\ Len(game_stats) > 0
        /\ \A c \in Clients : session[c] = None

Winners == {j \in 1..Len(game_stats) : game_stats[j].wins > 0}

UsernameOf(user_id) == users[CHOOSE i \in 1..Len(users) : users[i].id = user_id].username

\* the winners a leaderboard lists
Listed(lb) == {j \in Winners : \E k \in 1..Len(lb) : lb[k] = <<UsernameOf(game_stats[j].user_id), game_stats[j].wins>>}

\* C7: the leaderboard of GET /tictactoe lists only (username, wins) of
\* accounts with wins > 0, each once, by wins descending, at most 5 of them and
\* all of them when there are no more than 5; no listed account has fewer wins
\* than an omitted one.
C7_Leaderboard ==
    \A t \in Threads :
        pc[t] = "done" /\ req[t].route = "tictactoe" /\ resp[t].status = 200 =>
            /\ Len(resp[t].data) <= 5
            /\ Len(resp[t].data) = IF Cardinality(Winners) < 5 THEN Cardinality(Winners) ELSE 5
            /\ Cardinality(Listed(resp[t].data)) = Len(resp[t].data)
            /\ \A k \in 1..Len(resp[t].data) : resp[t].data[k][2] > 0
            /\ \A k \in 1..Len(resp[t].data) : \E j \in Listed(resp[t].data) :
                   resp[t].data[k] = <<UsernameOf(game_stats[j].user_id), game_stats[j].wins>>
            /\ \A k \in 1..(Len(resp[t].data) - 1) : resp[t].data[k][2] >= resp[t].data[k + 1][2]
            /\ \A j \in Winners \ Listed(resp[t].data) : \A k \in 1..Len(resp[t].data) :
                   game_stats[j].wins <= resp[t].data[k][2]

\* C7 witness: six accounts have wins > 0, two of the listed ones and the
\* omitted one with the same count, and the five listed are in order.
C7_Witness ==
    \E t \in Threads :
        /\ pc[t] = "done" /\ req[t].route = "tictactoe" /\ resp[t].status = 200
        /\ Cardinality(Winners) > 5
        /\ Len(resp[t].data) = 5
        /\ resp[t].data[1][2] = 5 /\ resp[t].data[2][2] = 3 /\ resp[t].data[3][2] = 3
        /\ resp[t].data[5][2] = 1
        /\ \E j \in Winners \ Listed(resp[t].data) : game_stats[j].wins = 1

\* the rows of a table that belong to other accounts than user_id
OthersRows(table, user_id) == SelectSeq(table, LAMBDA r : r.user_id # user_id)

\* C8: every step of a /notepad or /update_game_stats request made under the
\* session of account A leaves the rows of all other accounts in notes and
\* game_stats, and the whole users table, unchanged; the note content a
\* /notepad page shows is that of a row of A, or empty when A has none.
C8_OwnRowsOnly ==
    [][\A t \in Threads :
          pc'[t] # pc[t] /\ req'[t].route \in {"notepad", "update_game_stats"} /\ LoggedIn(req'[t].sess) =>
              /\ users' = users
              /\ OthersRows(notes', req'[t].sess.user_id) = OthersRows(notes, req'[t].sess.user_id)
              /\ OthersRows(game_stats', req'[t].sess.user_id) = OthersRows(game_stats, req'[t].sess.user_id)
              /\ req'[t].route = "notepad" => game_stats' = game_stats
              /\ req'[t].route = "update_game_stats" => notes' = notes
              /\ pc'[t] = "done" /\ req'[t].route = "notepad" =>
                    \/ resp'[t].data[1] = "" /\ \A i \in 1..Len(notes) : notes[i].user_id # req'[t].sess.user_id
                    \/ \E i \in 1..Len(notes) : notes[i].user_id = req'[t].sess.user_id /\ notes[i].content = resp'[t].data[1]]_vars

\* C8 witness: two accounts hold different notes and both hold statistics, and
\* the second account reads its own note back.
C8_Witness ==
    \E t \in Threads :
        /\ pc[t] = "done" /\ req[t].route = "notepad" /\ req[t].method = "GET"
        /\ LoggedIn(req[t].sess) /\ req[t].sess.user_id = 2
        /\ Len(notes) = 2 /\ notes[1].user_id = 1 /\ notes[2].user_id = 2
        /\ notes[1].content # notes[2].content
        /\ resp[t].data[1] = notes[2].content
        /\ Len(game_stats) = 2

====
